---- MODULE Spec2Model ----
(***************************************************************************)
(* Model of the rule engine of the Solidity analyzer: the tree traversal   *)
(* (utils/astUtils findNodes), the rule registry (rules/securityRules),    *)
(* RuleEngine (analyzer/ruleEngine), the best-practice selection           *)
(* (analyzer/bestpractices) and the reentrancy pattern detector            *)
(* (reentrancyRule.checkReentrancyPattern).                                *)
(***************************************************************************)
EXTENDS Integers, Sequences, FiniteSets, TLC

(***************************************************************************)
(* Bounds                                                                  *)
(***************************************************************************)
MaxAdded == 2
MaxSeq == 2
MaxFiles == 2
MaxStack == 6

(***************************************************************************)
(* Generic sequence helpers                                                *)
(***************************************************************************)
Range(s) == {s[i] : i \in 1..Len(s)}

Includes(s, x) == \E i \in 1..Len(s) : s[i] = x

\* s can be obtained from t by deleting elements
RECURSIVE IsSubSeq(_, _)
IsSubSeq(s, t) ==
    IF s = <<>> THEN TRUE
    ELSE IF t = <<>> THEN FALSE
    ELSE IF Head(s) = Head(t) THEN IsSubSeq(Tail(s), Tail(t))
    ELSE IsSubSeq(s, Tail(t))

RECURSIVE Flatten(_)
Flatten(ss) == IF ss = <<>> THEN <<>> ELSE Head(ss) \o Flatten(Tail(ss))

SeqsUpTo(S, n) == UNION {[1..k -> S] : k \in 0..n}

(***************************************************************************)
(* Severity: types/common.ts declares the five values; the RuleEngine's    *)
(* severityLevels table knows four of them.                                *)
(***************************************************************************)
Severity == {"critical", "high", "medium", "low", "info"}

Unset == "unset"
NoLevel == -1

\* the total order of the specification: critical > high > medium > low > info
SeverityRank(s) ==
    CASE s = "critical" -> 4
      [] s = "high"     -> 3
      [] s = "medium"   -> 2
      [] s = "low"      -> 1
      [] OTHER          -> 0

\* severityLevels[s] of RuleEngine.filterIssuesBySeverity; a key the table
\* does not hold reads as undefined (NoLevel)
severityLevels(s) ==
    CASE s = "high"   -> 3
      [] s = "medium" -> 2
      [] s = "low"    -> 1
      [] s = "info"   -> 0
      [] OTHER        -> NoLevel

\* JavaScript a >= b on the values above: any comparison with undefined is false
JsGeq(a, b) == a # NoLevel /\ b # NoLevel /\ a >= b

(***************************************************************************)
(* Tree model (parser/solidity.ts ASTNode).  A tree is a sequence of node  *)
(* records, node 1 is the root; children lists the object-valued           *)
(* properties of the node in key order, 0 standing for a null child.       *)
(* loc is <<>> when location metadata is absent, <<line, column>> else.    *)
(***************************************************************************)
NoLoc == <<>>
NullName == "<null>"

ASTNode(t, l, ch) ==
    [type |-> t, loc |-> l, children |-> ch,
     name |-> "", member |-> "", operator |-> "", guarded |-> FALSE,
     range |-> l # <<>>, visibility |-> ""]

\* function withdraw() { msg.sender.call(...); balances[msg.sender] = 0; }
TreeWithdraw ==
    << ASTNode("SourceUnit", <<1, 0>>, <<2>>),
       ASTNode("ContractDefinition", <<3, 0>>, <<3>>),
       [ASTNode("FunctionDefinition", <<7, 4>>, <<4, 5>>) EXCEPT !.name = "withdraw"],
       [ASTNode("FunctionCall", <<8, 8>>, <<>>) EXCEPT !.member = "call"],
       [ASTNode("BinaryOperation", <<9, 8>>, <<>>) EXCEPT !.operator = "="] >>

TreeStar == << ASTNode("*", <<1, 0>>, <<>>) >>

\* pre-order 1, 3, 2, 4; node 3 carries no location; a null child in between
TreeMixed ==
    << ASTNode("*", <<1, 0>>, <<3, 0, 2>>),
       ASTNode("Block", <<4, 0>>, <<4>>),
       ASTNode("*", NoLoc, <<>>),
       ASTNode("*", <<5, 2>>, <<>>) >>

\* pre-order 1, 3, 2
TreeStars ==
    << ASTNode("*", <<1, 0>>, <<3, 2>>),
       ASTNode("*", <<6, 0>>, <<>>),
       ASTNode("*", <<2, 0>>, <<>>) >>

Trees == <<TreeWithdraw, TreeStar, TreeMixed, TreeStars>>

NodesOf(tree) == 1..Len(tree)

(***************************************************************************)
(* utils/astUtils.ts                                                       *)
(***************************************************************************)
RECURSIVE traverse(_, _, _)
RECURSIVE traverseEach(_, _, _)

\* variant: the properties first, the node itself last
traversePostOrder(tree, n, type) ==
    IF n = 0 THEN <<>>
    ELSE traverseEach(tree, tree[n].children, type)
         \o (IF tree[n].type = type THEN <<n>> ELSE <<>>)

\* the inner function traverse of findNodes: the node itself when its type
\* tag equals the requested type, then every object-valued property in order
traverse(tree, n, type) ==
    IF n = 0 THEN <<>>
    ELSE (IF tree[n].type = type THEN <<n>> ELSE <<>>)
         \o traverseEach(tree, tree[n].children, type)

traverseEach(tree, ch, type) ==
    IF ch = <<>> THEN <<>>
    ELSE traverse(tree, Head(ch), type) \o traverseEach(tree, Tail(ch), type)

findNodes(tree, n, type) == traverse(tree, n, type)

NullLine == -1

getNodeLineNumber(node) == IF node.loc # NoLoc THEN node.loc[1] ELSE NullLine

\* JavaScript x || 0 on a line number or null
OrZero(line) == IF line = NullLine THEN 0 ELSE line

(***************************************************************************)
(* Findings (types/rules.ts Issue): the fields the engine and the          *)
(* aggregation read.                                                       *)
(***************************************************************************)
Issue(id, severity, line) == [id |-> id, severity |-> severity, line |-> line]

(***************************************************************************)
(* rules/securityRules.ts: reentrancyRule.checkReentrancyPattern           *)
(* externalCalls and stateChanges are sequences of node identities, locOf  *)
(* gives each node's loc.                                                  *)
(***************************************************************************)
\* variant: the column is not compared
compareNodesLineOnly(a, b, locOf) == locOf[a][1] - locOf[b][1]

\* the comparator of the sort: line first, column within a line
compareNodes(a, b, locOf) ==
    IF locOf[a][1] = locOf[b][1] THEN locOf[a][2] - locOf[b][2]
    ELSE locOf[a][1] - locOf[b][1]

\* .filter((node) => node.loc && node.loc.start)
filterLocated(nodes, locOf) ==
    LET Located(n) == locOf[n] # NoLoc IN SelectSeq(nodes, Located)

\* variant: among equal keys the later element of the input comes first
sortedIndexTiesReversed(nodes, i, locOf) ==
    1 + Cardinality({j \in 1..Len(nodes) :
                        \/ compareNodes(nodes[j], nodes[i], locOf) < 0
                        \/ compareNodes(nodes[j], nodes[i], locOf) = 0 /\ j > i})

\* Array.prototype.sort with the comparator above; the sort is stable, so
\* the element at index i lands behind every element that compares smaller
\* and behind the equal ones that precede it in the input
sortedIndex(nodes, i, locOf) ==
    1 + Cardinality({j \in 1..Len(nodes) :
                        \/ compareNodes(nodes[j], nodes[i], locOf) < 0
                        \/ compareNodes(nodes[j], nodes[i], locOf) = 0 /\ j < i})

sortNodes(nodes, locOf) ==
    LET index == [i \in 1..Len(nodes) |-> sortedIndex(nodes, i, locOf)]
    IN [p \in 1..Len(nodes) |->
           nodes[CHOOSE i \in 1..Len(nodes) : index[i] = p]]

\* variant: no filter; the comparator reads an absent loc as line 0, column 0,
\* so the unlocated nodes come first
nodesByPositionUnfiltered(externalCalls, stateChanges, locOf) ==
    LET Unlocated(n) == locOf[n] = NoLoc
    IN SelectSeq(externalCalls \o stateChanges, Unlocated)
         \o sortNodes(filterLocated(externalCalls \o stateChanges, locOf), locOf)

nodesByPosition(externalCalls, stateChanges, locOf) ==
    sortNodes(filterLocated(externalCalls \o stateChanges, locOf), locOf)

\* variant: a call and a write anywhere in the sorted list
hazardFoundAnyOrder(externalCalls, stateChanges, sorted) ==
    \E i, j \in 1..Len(sorted) :
        /\ i # j
        /\ Includes(externalCalls, sorted[i])
        /\ Includes(stateChanges, sorted[j])

\* variant: the outer loop stops one element early
hazardFoundShortLoop(externalCalls, stateChanges, sorted) ==
    \E i \in 1..(Len(sorted) - 2) :
        /\ Includes(externalCalls, sorted[i])
        /\ \E j \in (i + 1)..Len(sorted) : Includes(stateChanges, sorted[j])

\* the nested loops: i over 0..length-2, j over i+1..length-1, return at the
\* first state change found behind an external call
hazardFound(externalCalls, stateChanges, sorted) ==
    \E i \in 1..(Len(sorted) - 1) :
        /\ Includes(externalCalls, sorted[i])
        /\ \E j \in (i + 1)..Len(sorted) : Includes(stateChanges, sorted[j])

reentrancyIssue(functionNode) ==
    Issue("SEC-001", "high", OrZero(getNodeLineNumber(functionNode)))

\* variant: no return inside the loops, one finding per (call, later write) pair
checkReentrancyPatternPerPair(externalCalls, stateChanges, locOf, functionNode) ==
    LET sorted == nodesByPosition(externalCalls, stateChanges, locOf)
        pairs == {<<i, j>> \in (1..Len(sorted)) \X (1..Len(sorted)) :
                     /\ i < j
                     /\ Includes(externalCalls, sorted[i])
                     /\ Includes(stateChanges, sorted[j])}
    IN [k \in 1..Cardinality(pairs) |-> reentrancyIssue(functionNode)]

checkReentrancyPattern(externalCalls, stateChanges, locOf, functionNode) ==
    IF hazardFound(externalCalls, stateChanges,
                   nodesByPosition(externalCalls, stateChanges, locOf))
    THEN <<reentrancyIssue(functionNode)>>
    ELSE <<>>

(***************************************************************************)
(* utils/vulnerabilityUtils: the nodes of a function body recognised as    *)
(* external calls (low-level call / send / transfer forms) and as state    *)
(* writes (assignments), in traversal order.                               *)
(***************************************************************************)
findExternalCalls(tree, n) ==
    LET IsExt(m) == tree[m].member \in {"call", "send", "transfer"}
    IN SelectSeq(findNodes(tree, n, "FunctionCall"), IsExt)

findStateChanges(tree, n) ==
    LET IsWrite(m) == tree[m].operator = "="
    IN SelectSeq(findNodes(tree, n, "BinaryOperation"), IsWrite)

(***************************************************************************)
(* rules/securityRules.ts: the built-in registry.  A detect call yields    *)
(* [threw, issues]; threw stands for an exception leaving detect.          *)
(***************************************************************************)
Returns(issues) == [threw |-> FALSE, issues |-> issues]
Throws == [threw |-> TRUE, issues |-> <<>>]

reentrancyRule          == [id |-> "SEC-001", severity |-> "high"]
uncheckedCallsRule      == [id |-> "SEC-002", severity |-> "medium"]
dangerousFunctionsRule  == [id |-> "SEC-003", severity |-> "high"]
accessControlRule       == [id |-> "SEC-004", severity |-> "high"]
integerOverflowRule     == [id |-> "SEC-005", severity |-> "high"]
unprotectedSelfdestructRule == [id |-> "SEC-006", severity |-> "high"]
addressValidationRule   == [id |-> "SEC-007", severity |-> "medium"]
erc20ImplementationRule == [id |-> "SEC-008", severity |-> "high"]
txOriginAuthRule        == [id |-> "SEC-009", severity |-> "high"]
timestampDependenceRule == [id |-> "SEC-010", severity |-> "medium"]

securityRules ==
    << reentrancyRule, uncheckedCallsRule, dangerousFunctionsRule,
       accessControlRule, integerOverflowRule, unprotectedSelfdestructRule,
       addressValidationRule, erc20ImplementationRule, txOriginAuthRule,
       timestampDependenceRule >>

\* variant: neither the type test nor the emptiness test
reentrancyDetectNoGuard(type, externalCalls, stateChanges, locOf, functionNode) ==
    [scanned |-> TRUE,
     issues |-> checkReentrancyPattern(externalCalls, stateChanges, locOf,
                                       functionNode)]

\* reentrancyRule.detect on a node of the given type whose subtree holds the
\* given external calls and state changes; scanned tells whether
\* checkReentrancyPattern was called
reentrancyDetect(type, externalCalls, stateChanges, locOf, functionNode) ==
    IF type # "FunctionDefinition" THEN [scanned |-> FALSE, issues |-> <<>>]
    ELSE IF Len(externalCalls) = 0 \/ Len(stateChanges) = 0
         THEN [scanned |-> FALSE, issues |-> <<>>]
         ELSE [scanned |-> TRUE,
               issues |-> checkReentrancyPattern(externalCalls, stateChanges,
                                                 locOf, functionNode)]

detectReentrancy(tree, n) ==
    Returns(reentrancyDetect(tree[n].type,
                             findExternalCalls(tree, n),
                             findStateChanges(tree, n),
                             [m \in NodesOf(tree) |-> tree[m].loc],
                             tree[n]).issues)

\* uncheckedCallsRule.detect; the parser sets no parent field
detectUncheckedCalls(tree, n) ==
    IF tree[n].type # "FunctionCall" THEN Returns(<<>>)
    ELSE IF tree[n].member \notin {"call", "send"} THEN Returns(<<>>)
    ELSE Returns(<<Issue("SEC-002", "medium", getNodeLineNumber(tree[n]))>>)

\* dangerousFunctionsRule.detect
detectDangerousFunctions(tree, n) ==
    Returns(
      (IF tree[n].type = "FunctionCall" /\ tree[n].member = "selfdestruct"
       THEN <<Issue("SEC-003-SELFDESTRUCT", "high", getNodeLineNumber(tree[n]))>>
       ELSE <<>>)
      \o
      (IF tree[n].type = "FunctionCall" /\ tree[n].member = "delegatecall"
       THEN <<Issue("SEC-003-DELEGATECALL", "high", getNodeLineNumber(tree[n]))>>
       ELSE <<>>)
      \o
      (IF tree[n].type = "InlineAssemblyStatement"
       THEN <<Issue("SEC-003-ASSEMBLY", "medium", getNodeLineNumber(tree[n]))>>
       ELSE <<>>))

sensitiveFunctions ==
    {"mint", "burn", "transferOwnership", "changeOwner", "lock", "unlock",
     "pause", "unpause", "withdraw"}

\* String.prototype.toLowerCase on the names that occur in the trees
toLowerCase(name) ==
    CASE name = "Mint" -> "mint"
      [] name = "transferOwnership" -> "transferownership"
      [] OTHER -> name

\* accessControlRule.detect; name.toLowerCase() raises on a null name;
\* guarded stands for hasOwnerModifier || hasMsgSenderCheck
detectAccessControl(tree, n) ==
    IF tree[n].type # "FunctionDefinition" THEN Returns(<<>>)
    ELSE IF tree[n].visibility \in {"internal", "private"} THEN Returns(<<>>)
    ELSE IF tree[n].name = NullName THEN Throws
    ELSE IF toLowerCase(tree[n].name) \notin sensitiveFunctions THEN Returns(<<>>)
    ELSE IF ~tree[n].guarded
         THEN Returns(<<Issue("SEC-004", "high", getNodeLineNumber(tree[n]))>>)
         ELSE Returns(<<>>)

\* integerOverflowRule.detect, for a source text without SafeMath or a 0.8 pragma
detectIntegerOverflow(tree, n) ==
    IF tree[n].type # "BinaryOperation" THEN Returns(<<>>)
    ELSE IF tree[n].operator \notin {"+", "-", "*"} THEN Returns(<<>>)
    ELSE Returns(<<Issue("SEC-005", "high", getNodeLineNumber(tree[n]))>>)

\* SEC-006 .. SEC-010 on nodes without parameters, parent or member-access
\* fields and a source text without ERC20 markers: every path returns []
detectNone(tree, n) == Returns(<<>>)

\* rules/gas/explicitUint256Rule.ts
explicitUint256Rule == [id |-> "GAS-001", severity |-> "low"]

\* explicitUint256Rule.detect; node.range[0] raises when range is absent
detectExplicitUint256(tree, n) ==
    IF tree[n].type = "ElementaryTypeName" /\ tree[n].name = "uint256"
    THEN IF ~tree[n].range THEN Throws
         ELSE Returns(<<Issue("GAS-001", "low", getNodeLineNumber(tree[n]))>>)
    ELSE Returns(<<>>)

(***************************************************************************)
(* Caller-supplied rules (types/rules.ts SecurityRule) used with custom    *)
(* registries and addRule.                                                 *)
(***************************************************************************)
\* one finding for every node it is given
everyNodeRule == [id |-> "CUS-001", severity |-> "critical"]

\* reads node.loc.start.line of a "*" node without a guard: raises when the
\* node has no location, else reports a low and a high finding
wildcardRule == [id |-> "CUS-002", severity |-> "low"]

detectEveryNode(tree, n) ==
    Returns(<<Issue("CUS-001", "critical", getNodeLineNumber(tree[n]))>>)

detectWildcard(tree, n) ==
    IF tree[n].type # "*" THEN Returns(<<>>)
    ELSE IF tree[n].loc = NoLoc THEN Throws
    ELSE Returns(<<Issue("CUS-002", "low", tree[n].loc[1]),
                   Issue("CUS-002", "high", tree[n].loc[1])>>)

CustomRules == {everyNodeRule, wildcardRule}

\* rule.detect(node, sourceCode, filePath)
detect(rule, tree, n) ==
    CASE rule.id = "SEC-001" -> detectReentrancy(tree, n)
      [] rule.id = "SEC-002" -> detectUncheckedCalls(tree, n)
      [] rule.id = "SEC-003" -> detectDangerousFunctions(tree, n)
      [] rule.id = "SEC-004" -> detectAccessControl(tree, n)
      [] rule.id = "SEC-005" -> detectIntegerOverflow(tree, n)
      [] rule.id = "GAS-001" -> detectExplicitUint256(tree, n)
      [] rule.id = "CUS-001" -> detectEveryNode(tree, n)
      [] rule.id = "CUS-002" -> detectWildcard(tree, n)
      [] OTHER               -> detectNone(tree, n)

(***************************************************************************)
(* analyzer/ruleEngine.ts                                                  *)
(***************************************************************************)
Options(inc, exc, sev) ==
    [includeRules |-> inc, excludeRules |-> exc, minSeverity |-> sev]

\* variant: the selected rules collected in reverse (unshift for push)
filterRulesByOptionsReversed(rules, options) ==
    LET Included(r) == Includes(options.includeRules, r.id)
        NotExcluded(r) == ~Includes(options.excludeRules, r.id)
        afterInclude == IF options.includeRules # <<>>
                        THEN SelectSeq(rules, Included) ELSE rules
        kept == IF options.excludeRules # <<>>
                THEN SelectSeq(afterInclude, NotExcluded) ELSE afterInclude
    IN [i \in 1..Len(kept) |-> kept[Len(kept) + 1 - i]]

\* variant: ids that name no rule are taken out of the lists before the
\* lists are tested for emptiness
filterRulesByOptionsKnownOnly(rules, options) ==
    LET Known(id) == \E i \in 1..Len(rules) : rules[i].id = id
        inc == SelectSeq(options.includeRules, Known)
        exc == SelectSeq(options.excludeRules, Known)
        Included(r) == Includes(inc, r.id)
        NotExcluded(r) == ~Includes(exc, r.id)
        afterInclude == IF inc # <<>> THEN SelectSeq(rules, Included) ELSE rules
    IN IF exc # <<>> THEN SelectSeq(afterInclude, NotExcluded) ELSE afterInclude

\* variant: else-if, the exclude list is skipped when an include list is given
filterRulesByOptionsElseIf(rules, options) ==
    LET Included(r) == Includes(options.includeRules, r.id)
        NotExcluded(r) == ~Includes(options.excludeRules, r.id)
    IN IF options.includeRules # <<>> THEN SelectSeq(rules, Included)
       ELSE IF options.excludeRules # <<>> THEN SelectSeq(rules, NotExcluded)
       ELSE rules

filterRulesByOptions(rules, options) ==
    LET Included(r) == Includes(options.includeRules, r.id)
        NotExcluded(r) == ~Includes(options.excludeRules, r.id)
        afterInclude == IF options.includeRules # <<>>
                        THEN SelectSeq(rules, Included) ELSE rules
    IN IF options.excludeRules # <<>>
       THEN SelectSeq(afterInclude, NotExcluded) ELSE afterInclude

\* variant: without a threshold, findings on a line already reported are dropped
filterIssuesBySeverityDedup(issues, minSeverity) ==
    IF minSeverity = Unset
    THEN LET First(i) == \A j \in 1..(i - 1) : issues[j].line # issues[i].line
             keep == {i \in 1..Len(issues) : First(i)}
         IN [p \in 1..Cardinality(keep) |->
                issues[CHOOSE i \in keep : Cardinality({j \in keep : j <= i}) = p]]
    ELSE LET minLevel == severityLevels(minSeverity)
             Kept(issue) == JsGeq(severityLevels(issue.severity), minLevel)
         IN SelectSeq(issues, Kept)

\* variant: the comparison turned around
filterIssuesBySeverityBelow(issues, minSeverity) ==
    IF minSeverity = Unset THEN issues
    ELSE LET minLevel == severityLevels(minSeverity)
             Kept(issue) == JsGeq(minLevel, severityLevels(issue.severity))
         IN SelectSeq(issues, Kept)

filterIssuesBySeverity(issues, minSeverity) ==
    IF minSeverity = Unset THEN issues
    ELSE LET minLevel == severityLevels(minSeverity)
             Kept(issue) == JsGeq(severityLevels(issue.severity), minLevel)
         IN SelectSeq(issues, Kept)

\* applyRuleToAST returns [] on both of its paths
applyRuleToAST(rule, tree) == <<>>

\* the node type RuleEngine.analyze hands to findNodes
EngineNodeType == "*"

\* one record per detect invocation: position of the rule in the filtered
\* list, the node, what the call returned
DetectCall(ri, rule, n, d) ==
    [ri |-> ri, rule |-> rule, node |-> n, threw |-> d.threw, issues |-> d.issues]

\* the inner loop of analyze: detect on each node in turn, an exception
\* leaves the loop
RECURSIVE applyToNodes(_, _, _, _)
applyToNodes(ri, rule, tree, nodes) ==
    IF nodes = <<>> THEN [threw |-> FALSE, issues |-> <<>>, calls |-> <<>>]
    ELSE LET d == detect(rule, tree, Head(nodes))
             c == DetectCall(ri, rule, Head(nodes), d)
         IN IF d.threw
            THEN [threw |-> TRUE, issues |-> <<>>, calls |-> <<c>>]
            ELSE LET rest == applyToNodes(ri, rule, tree, Tail(nodes))
                 IN [threw |-> rest.threw,
                     issues |-> d.issues \o rest.issues,
                     calls |-> <<c>> \o rest.calls]

\* the outer loop of analyze over the filtered rules, from position ri on
RECURSIVE applyRules(_, _, _)
applyRules(ri, filteredRules, tree) ==
    IF ri > Len(filteredRules)
    THEN [threw |-> FALSE, issues |-> <<>>, calls |-> <<>>]
    ELSE LET rule == filteredRules[ri]
             astIssues == applyRuleToAST(rule, tree)
             nodes == findNodes(tree, 1, EngineNodeType)
             here == applyToNodes(ri, rule, tree, nodes)
         IN IF here.threw
            THEN [threw |-> TRUE, issues |-> <<>>, calls |-> here.calls]
            ELSE LET rest == applyRules(ri + 1, filteredRules, tree)
                 IN [threw |-> rest.threw,
                     issues |-> astIssues \o here.issues \o rest.issues,
                     calls |-> here.calls \o rest.calls]

\* RuleEngine.analyze: threw when an exception leaves the call, else the
\* returned finding list; active is the local filteredRules, calls the trace
\* of detect invocations
analyze(rules, tree, options) ==
    LET filteredRules == filterRulesByOptions(rules, options)
        run == applyRules(1, filteredRules, tree)
    IN [threw |-> run.threw,
        issues |-> IF run.threw THEN <<>>
                   ELSE filterIssuesBySeverity(run.issues, options.minSeverity),
        active |-> filteredRules,
        calls |-> run.calls]

\* variant: the filter applied to this.rules itself instead of a copy
rulesAfterAnalyzeInPlace(rules, options) == filterRulesByOptions(rules, options)

\* this.rules after analyze: filterRulesByOptions works on a copy ([...rules])
rulesAfterAnalyze(rules, options) == rules

(***************************************************************************)
(* analyzer/bestpractices.ts: analyzeBestPracticesDetailed.  hits is the   *)
(* set of practice rules whose check finds its pattern in the source.      *)
(***************************************************************************)
PRACTICE_RULES ==
    << [id |-> "BP001", severity |-> "medium"],
       [id |-> "BP002", severity |-> "low"],
       [id |-> "BP003", severity |-> "low"],
       [id |-> "BP004", severity |-> "info"],
       [id |-> "BP005", severity |-> "medium"] >>

\* the severityLevels table of analyzeBestPracticesDetailed, with || 0
practiceSeverityLevels(s) == SeverityRank(s)

\* lines 91-101: include, then exclude
practiceRulesSelected(options) ==
    LET Included(r) == Includes(options.includeRules, r.id)
        NotExcluded(r) == ~Includes(options.excludeRules, r.id)
        afterInclude == IF options.includeRules # <<>>
                        THEN SelectSeq(PRACTICE_RULES, Included) ELSE PRACTICE_RULES
    IN IF options.excludeRules # <<>>
       THEN SelectSeq(afterInclude, NotExcluded) ELSE afterInclude

\* lines 102-115: rules below the threshold are not applied
practiceRulesToApply(options) ==
    LET AtLeast(r) == practiceSeverityLevels(r.severity)
                        >= practiceSeverityLevels(options.minSeverity)
    IN IF options.minSeverity # Unset
       THEN SelectSeq(practiceRulesSelected(options), AtLeast)
       ELSE practiceRulesSelected(options)

RECURSIVE practiceIssues(_, _)
practiceIssues(rules, hits) ==
    IF rules = <<>> THEN <<>>
    ELSE (IF Head(rules).id \in hits
          THEN <<Issue(Head(rules).id, Head(rules).severity, 1)>> ELSE <<>>)
         \o practiceIssues(Tail(rules), hits)

analyzeBestPracticesDetailed(hits, options) ==
    [selected |-> practiceRulesSelected(options),
     applied |-> practiceRulesToApply(options),
     issues |-> practiceIssues(practiceRulesToApply(options), hits)]

(***************************************************************************)
(* Inputs                                                                  *)
(***************************************************************************)
IncludeLists ==
    {<<>>, <<"CUS-001">>, <<"SEC-001">>, <<"CUS-002", "CUS-001">>, <<"NOPE-1">>,
     <<"NOPE-1", "CUS-001">>}
ExcludeLists ==
    {<<>>, <<"CUS-001">>, <<"SEC-001">>, <<"CUS-002", "NOPE-1">>}
\* minSeverity as ruleEngine.ts declares it, unset included
EngineMinSeverities == {Unset, "high", "medium", "low", "info"}
EngineOptions ==
    {Options(i, e, s) : i \in IncludeLists, e \in ExcludeLists,
                        s \in EngineMinSeverities}

PracticeIncludeLists == {<<>>, <<"BP002">>, <<"BP005", "BP001">>, <<"NOPE-1">>}
PracticeExcludeLists == {<<>>, <<"BP002">>, <<"BP001", "BP004">>, <<"NOPE-1">>}
PracticeOptions ==
    {Options(i, e, s) : i \in PracticeIncludeLists, e \in PracticeExcludeLists,
                        s \in {Unset} \cup Severity}
PracticeHits == {{"BP001", "BP002", "BP003", "BP004", "BP005"}, {"BP002", "BP004", "BP005"}}

(***************************************************************************)
(* State                                                                   *)
(***************************************************************************)
VARIABLES
    regs,      \* the rule arrays: the module-level securityRules and a caller's array
    engines,   \* engines[e]: the array this.rules of engine e refers to
    last,      \* the most recent RuleEngine.analyze call and what it returned
    again,     \* the result of repeating that call
    practice,  \* the most recent analyzeBestPracticesDetailed call and its result
    reent,     \* the most recent checkReentrancyPattern call and its result
    found,     \* the most recent findNodes call and its result
    cli,       \* the analyze command of the CLI: the files, the position in processFile, what was done per file
    app,       \* the most recent detect call made directly on a node and its result
    walk,      \* a call of findNodes or nodeContains in progress: its stack of traverse calls
    agg        \* the most recent aggregation (analyzer/index analyze, CombinedAnalyzer) and its result

vars == <<regs, engines, last, again, practice, reent, found, agg, cli, app, walk>>

RegIds == {"securityRules", "customRules"}

\* the engine instances: two built by new RuleEngine(), one by
\* new RuleEngine(customRules); this.rules = customRules || securityRules
\* keeps a reference to the array
Engines == <<"securityRules", "securityRules", "customRules">>

NoCall ==
    [eng |-> 0, tree |-> 0, options |-> Options(<<>>, <<>>, Unset),
     rules |-> <<>>, threw |-> FALSE, issues |-> <<>>, active |-> <<>>,
     calls |-> <<>>]

NoAgain == [done |-> FALSE, eng |-> 0, threw |-> FALSE, issues |-> <<>>]

NoPractice ==
    [done |-> FALSE, hits |-> {}, options |-> Options(<<>>, <<>>, Unset),
     selected |-> <<>>, applied |-> <<>>, issues |-> <<>>]

NoReent ==
    [done |-> FALSE, type |-> "FunctionDefinition", scanned |-> FALSE,
     externalCalls |-> <<>>, stateChanges |-> <<>>,
     locOf |-> <<>>, functionNode |-> ASTNode("FunctionDefinition", NoLoc, <<>>),
     sorted |-> <<>>, issues |-> <<>>]

NoFound == [done |-> FALSE, tree |-> <<>>, type |-> "", nodes |-> <<>>, after |-> <<>>]

NoAgg == [done |-> FALSE]

\* what processFile did for one file
NoRun ==
    [errors |-> <<>>, printed |-> <<>>, analyzed |-> FALSE, reported |-> "",
     caught |-> FALSE]

NoCli == [pc |-> "idle", files |-> <<>>, output |-> "", i |-> 0, run |-> NoRun,
          runs |-> <<>>]

NoApp == [done |-> FALSE]
NoWalk == [pc |-> "idle"]

Init ==
    /\ regs = [r \in RegIds |-> IF r = "securityRules" THEN securityRules ELSE <<>>]
    /\ engines = Engines
    /\ last = NoCall
    /\ again = NoAgain
    /\ practice = NoPractice
    /\ reent = NoReent
    /\ found = NoFound
    /\ agg = NoAgg
    /\ cli = NoCli
    /\ app = NoApp
    /\ walk = NoWalk

AddedCount == Len(regs["securityRules"]) - Len(securityRules) + Len(regs["customRules"])

\* RuleEngine.addRule: this.rules.push(rule); the recorded call is dropped
\* because the registry it ran on is gone
AddRule(e, rule) ==
    /\ e \in 1..Len(engines)
    /\ AddedCount < MaxAdded
    /\ regs' = [regs EXCEPT ![engines[e]] = Append(@, rule)]
    /\ last' = NoCall
    /\ again' = NoAgain
    /\ UNCHANGED <<engines, practice, reent, found, agg, cli, app, walk>>

\* RuleEngine.analyze(ast, sourceCode, filePath, options): the call runs to
\* completion and its result is recorded until the caller takes it (Return)
Analyze(e, t, o) ==
    /\ last.eng = 0
    /\ ~practice.done
    /\ e \in 1..Len(engines)
    /\ LET rules == regs[engines[e]]
           out == analyze(rules, Trees[t], o)
       IN /\ last' = [eng |-> e, tree |-> t, options |-> o, rules |-> rules,
                      threw |-> out.threw, issues |-> out.issues,
                      active |-> out.active, calls |-> out.calls]
          /\ regs' = [regs EXCEPT ![engines[e]] = rulesAfterAnalyze(rules, o)]
    /\ again' = NoAgain
    /\ UNCHANGED <<engines, practice, reent, found, agg, cli, app, walk>>

\* options of the analyze call made between a call and its repetition
BetweenOptions ==
    {Options(<<"CUS-001">>, <<>>, "high"),
     Options(<<"SEC-001">>, <<"CUS-002", "NOPE-1">>, Unset)}

\* the recorded call repeated on engine e2, built from the same registry,
\* after another analyze call (options o3) on the engine of the recorded call
AnalyzeAgain(e2, o3) ==
    /\ last.eng # 0
    /\ ~again.done
    /\ e2 \in 1..Len(engines)
    /\ regs[engines[e2]] = last.rules
    /\ LET regs1 == [regs EXCEPT ![engines[last.eng]] = rulesAfterAnalyze(@, o3)]
           out == analyze(regs1[engines[e2]], Trees[last.tree], last.options)
       IN /\ again' = [done |-> TRUE, eng |-> e2, threw |-> out.threw,
                       issues |-> out.issues]
          /\ regs' = [regs1 EXCEPT ![engines[e2]] = rulesAfterAnalyze(@, last.options)]
    /\ UNCHANGED <<engines, last, practice, reent, found, agg, cli, app, walk>>

\* the caller takes the returned list
Return ==
    /\ last.eng # 0 \/ practice.done
    /\ last' = NoCall
    /\ again' = NoAgain
    /\ practice' = NoPractice
    /\ UNCHANGED <<regs, engines, reent, found, agg, cli, app, walk>>

\* analyzeBestPracticesDetailed(ast, source, filePath, options)
AnalyzePractices(hits, o) ==
    /\ last.eng = 0
    /\ ~practice.done
    /\ LET out == analyzeBestPracticesDetailed(hits, o)
       IN practice' = [done |-> TRUE, hits |-> hits, options |-> o,
                       selected |-> out.selected, applied |-> out.applied,
                       issues |-> out.issues]
    /\ UNCHANGED <<regs, engines, last, again, reent, found, agg, cli, app, walk>>

Next ==
    \/ \E e \in 1..Len(engines), rule \in CustomRules : AddRule(e, rule)
    \/ /\ last.eng = 0 /\ ~practice.done
       /\ \E e \in 1..Len(engines), t \in 1..Len(Trees), o \in EngineOptions :
              Analyze(e, t, o)
    \/ /\ last.eng # 0
       /\ \E e2 \in 1..Len(engines), o3 \in BetweenOptions : AnalyzeAgain(e2, o3)
    \/ /\ last.eng = 0 /\ ~practice.done
       /\ \E hits \in PracticeHits, o \in PracticeOptions : AnalyzePractices(hits, o)
    \/ Return

Spec == Init /\ [][Next]_vars

(***************************************************************************)
(* checkReentrancyPattern applied to bounded inputs: three node            *)
(* identities, each with or without a location                             *)
(***************************************************************************)
NodeIds == {1, 2, 3}
Lines == {1, 2}
Columns == {0, 1}
Locs == {NoLoc} \cup (Lines \X Columns)
FunctionNodes ==
    {ASTNode("FunctionDefinition", NoLoc, <<>>),
     ASTNode("FunctionDefinition", <<7, 4>>, <<>>)}

CheckReentrancy(externalCalls, stateChanges, locOf, functionNode) ==
    /\ ~reent.done
    /\ reent' = [done |-> TRUE, type |-> "FunctionDefinition", scanned |-> TRUE,
                 externalCalls |-> externalCalls,
                 stateChanges |-> stateChanges, locOf |-> locOf,
                 functionNode |-> functionNode,
                 sorted |-> nodesByPosition(externalCalls, stateChanges, locOf),
                 issues |-> checkReentrancyPattern(externalCalls, stateChanges,
                                                   locOf, functionNode)]
    /\ UNCHANGED <<regs, engines, last, again, practice, found, agg, cli, app, walk>>

\* the nodes are numbered in the order of their first appearance in the two
\* lists, the calls first; a node in neither list has no location
NumberedByAppearance(nodes) ==
    \A k \in 1..Len(nodes) :
        nodes[k] <= 1 + Cardinality({nodes[j] : j \in 1..(k - 1)})

NextReent ==
    /\ ~reent.done
    /\ \E externalCalls \in SeqsUpTo(NodeIds, MaxSeq),
          stateChanges \in SeqsUpTo(NodeIds, MaxSeq) :
        /\ NumberedByAppearance(externalCalls \o stateChanges)
        /\ \E locOf \in [NodeIds -> Locs], functionNode \in FunctionNodes :
              /\ \A n \in NodeIds \ Range(externalCalls \o stateChanges) :
                    locOf[n] = NoLoc
              /\ CheckReentrancy(externalCalls, stateChanges, locOf, functionNode)

SpecReent == Init /\ [][NextReent]_vars

(***************************************************************************)
(* reentrancyRule.detect applied to bounded inputs: the type of the node   *)
(* and the external calls and state changes found under it                 *)
(***************************************************************************)
DetectTypes == {"FunctionDefinition", "FunctionCall", "*"}
DetectLocs == {NoLoc, <<1, 0>>, <<2, 0>>}

DetectReentrancy(type, externalCalls, stateChanges, locOf, functionNode) ==
    /\ ~reent.done
    /\ LET out == reentrancyDetect(type, externalCalls, stateChanges, locOf,
                                   functionNode)
       IN reent' = [done |-> TRUE, type |-> type, scanned |-> out.scanned,
                    externalCalls |-> externalCalls,
                    stateChanges |-> stateChanges, locOf |-> locOf,
                    functionNode |-> functionNode, issues |-> out.issues]
    /\ UNCHANGED <<regs, engines, last, again, practice, found, agg, cli, app, walk>>

NextDetect ==
    /\ ~reent.done
    /\ \E type \in DetectTypes,
          externalCalls \in SeqsUpTo(NodeIds, MaxSeq),
          stateChanges \in SeqsUpTo(NodeIds, MaxSeq),
          locOf \in [NodeIds -> DetectLocs],
          loc \in {NoLoc, <<7, 4>>} :
        DetectReentrancy(type, externalCalls, stateChanges, locOf,
                         ASTNode(type, loc, <<>>))

SpecDetect == Init /\ [][NextDetect]_vars

(***************************************************************************)
(* findNodes applied to bounded trees: four shapes of up to four nodes,    *)
(* every assignment of type tags to the nodes                              *)
(***************************************************************************)
TypeTags == {"*", ".*", "FunctionDefinition"}
RequestedTypes == {"*", ".*", "FunctionDefinition", "Block"}

\* children lists per node; 0 is a null property
Shapes ==
    { << <<2, 3>>, <<4>>, <<>>, <<>> >>,
      << <<3, 0, 2>>, <<0, 4>>, <<>>, <<>> >>,
      << <<2>>, <<3>>, <<4>>, <<0>> >>,
      << <<4, 3, 2>>, <<>>, <<>>, <<>> >>,
      << <<2>>, <<>> >>,
      << <<>> >> }

ShapedTrees ==
    UNION { { [n \in 1..Len(sh) |-> ASTNode(tags[n], <<n, 0>>, sh[n])] :
                tags \in [1..Len(sh) -> TypeTags] } : sh \in Shapes }

\* findNodes reads node.type and the node's properties and assigns nothing
astAfterFindNodes(tree, type) == tree

FindNodes(tree, type) ==
    /\ ~found.done
    /\ found' = [done |-> TRUE, tree |-> tree, type |-> type,
                 nodes |-> findNodes(tree, 1, type),
                 after |-> astAfterFindNodes(tree, type)]
    /\ UNCHANGED <<regs, engines, last, again, practice, reent, agg, cli, app, walk>>

NextFind ==
    /\ ~found.done
    /\ \E tree \in ShapedTrees, type \in RequestedTypes : FindNodes(tree, type)

SpecFind == Init /\ [][NextFind]_vars

(***************************************************************************)
(* Aggregation: analyzer/index.ts analyze and calculateStats, the          *)
(* statistics of the security analyzer and of the gas optimizer, and       *)
(* analyzer/combinedAnalyzer.ts.  A statistics table is [counts, nan]:     *)
(* counts maps the keys the table was created with to numbers, nan holds   *)
(* the keys whose value became NaN.                                        *)
(***************************************************************************)
StatKeys4 == {"high", "medium", "low", "info"}

NewTable(keys) == [counts |-> [k \in keys |-> 0], nan |-> {}]

\* issuesBySeverity[issue.severity]++ : a key of the table is incremented,
\* a missing key reads undefined and is stored as NaN
Increment(table, sev) ==
    IF sev \in DOMAIN table.counts
    THEN [table EXCEPT !.counts[sev] = @ + 1]
    ELSE [table EXCEPT !.nan = @ \cup {sev}]

\* if (severityKey in issuesBySeverity) issuesBySeverity[severityKey]++
IncrementIfKey(table, sev) ==
    IF sev \in DOMAIN table.counts
    THEN [table EXCEPT !.counts[sev] = @ + 1]
    ELSE table

RECURSIVE countEach(_, _)
countEach(table, issues) ==
    IF issues = <<>> THEN table
    ELSE countEach(Increment(table, Head(issues).severity), Tail(issues))

RECURSIVE countEachKey(_, _)
countEachKey(table, issues) ==
    IF issues = <<>> THEN table
    ELSE countEachKey(IncrementIfKey(table, Head(issues).severity), Tail(issues))

\* analyzer/index.ts calculateStats (SecurityAnalyzer.calculateStats is the same loop)
calculateStats(issues) ==
    [issuesBySeverity |-> countEach(NewTable(StatKeys4), issues),
     totalIssues |-> Len(issues)]

\* the calculateStats that creates the table with five keys and tests the key
calculateStatsFiveKeys(issues) ==
    [issuesBySeverity |-> countEachKey(NewTable(Severity), issues),
     totalIssues |-> Len(issues)]

countBySeverity(issues, severity) ==
    LET Has(f) == f.severity = severity IN Len(SelectSeq(issues, Has))

\* utils/gasStatsCalculator.ts calculateGasStats
calculateGasStats(issues) ==
    [issuesBySeverity |->
        [counts |-> [k \in StatKeys4 |-> countBySeverity(issues, k)], nan |-> {}],
     totalIssues |-> Len(issues)]

RunFlags == [security : BOOLEAN, gas : BOOLEAN, practices : BOOLEAN]

\* variant: the practice findings are left out of the combined list
indexAnalyzeWithoutPractices(flags, securityResults, gasResults, practiceResults) ==
    LET runAll == ~flags.security /\ ~flags.gas /\ ~flags.practices
        securityIssues == IF flags.security \/ runAll THEN securityResults ELSE <<>>
        gasIssues == IF flags.gas \/ runAll THEN gasResults ELSE <<>>
        practiceList == IF flags.practices \/ runAll THEN practiceResults ELSE <<>>
        issues == securityIssues \o gasIssues
    IN [securityIssues |-> securityIssues, gasIssues |-> gasIssues,
        practiceIssues |-> practiceList, issues |-> issues,
        stats |-> calculateStats(issues)]

\* analyzer/index.ts analyze, given what the three analyses return when run
indexAnalyze(flags, securityResults, gasResults, practiceResults) ==
    LET runAll == ~flags.security /\ ~flags.gas /\ ~flags.practices
        securityIssues == IF flags.security \/ runAll THEN securityResults ELSE <<>>
        gasIssues == IF flags.gas \/ runAll THEN gasResults ELSE <<>>
        practiceList == IF flags.practices \/ runAll THEN practiceResults ELSE <<>>
        issues == securityIssues \o gasIssues \o practiceList
    IN [securityIssues |-> securityIssues, gasIssues |-> gasIssues,
        practiceIssues |-> practiceList, issues |-> issues,
        stats |-> calculateStats(issues)]

\* CombinedAnalyzer.analyze, given the issues of analyzeSecurity and analyzeGas
combinedAnalyze(securityResults, gasResults) ==
    LET securityResult == [issues |-> securityResults,
                           stats |-> calculateStats(securityResults)]
        gasResult == [issues |-> gasResults,
                      stats |-> calculateGasStats(gasResults)]
    IN [allIssues |-> securityResult.issues \o gasResult.issues,
        stats |-> [securityIssueCount |-> securityResult.stats.totalIssues,
                   gasIssueCount |-> gasResult.stats.totalIssues,
                   totalIssueCount |-> securityResult.stats.totalIssues
                                       + gasResult.stats.totalIssues]]

\* what the analyses can return: findings told apart by origin and severity
FindingsFrom(id, sevs, n) == SeqsUpTo({Issue(id, sv, 0) : sv \in sevs}, n)
SecurityResults == FindingsFrom("SEC", Severity, MaxSeq)
GasResults == FindingsFrom("GAS", {"critical", "medium", "low"}, MaxSeq)
PracticeResults ==
    {<<>>, <<Issue("BP", "info", 0)>>, <<Issue("BP", "low", 0), Issue("BP", "medium", 0)>>}

Aggregate(flags, securityResults, gasResults, practiceResults) ==
    /\ ~agg.done
    /\ agg' = [done |-> TRUE, flags |-> flags,
               securityResults |-> securityResults, gasResults |-> gasResults,
               practiceResults |-> practiceResults,
               result |-> indexAnalyze(flags, securityResults, gasResults,
                                       practiceResults),
               combined |-> combinedAnalyze(securityResults, gasResults),
               securityStats |-> calculateStats(securityResults),
               gasStats |-> calculateGasStats(gasResults),
               fiveKeyStats |-> calculateStatsFiveKeys(
                                   securityResults \o gasResults \o practiceResults)]
    /\ UNCHANGED <<regs, engines, last, again, practice, reent, found, cli, app, walk>>

NextAggregate ==
    /\ ~agg.done
    /\ \E flags \in RunFlags, securityResults \in SecurityResults,
          gasResults \in GasResults, practiceResults \in PracticeResults :
        Aggregate(flags, securityResults, gasResults, practiceResults)

SpecAggregate == Init /\ [][NextAggregate]_vars

(***************************************************************************)
(* The CLI: the analyze command and processFile.  A file is described by   *)
(* what reading and parsing it gives and by whether the analysis throws.   *)
(***************************************************************************)
FileKinds ==
    {"clean", "oneError", "twoErrors", "unreadable", "parserCrash", "analyzeCrash",
     "reportCrash"}

\* parseSolidity(content).errors: the parser's error when it throws a
\* ParserError, [] when it returns a tree
parseErrors(kind) ==
    CASE kind = "oneError" -> <<"error1">>
      [] kind = "twoErrors" -> <<"error1", "error2">>
      [] OTHER -> <<>>

OutputFormats == {"console", "html"}

CurrentFile == cli.files[cli.i]

\* the command's action: the files matched by the pattern, then processFile
\* for each in turn
RunCommand(files, output) ==
    /\ cli.pc = "idle"
    /\ cli' = [NoCli EXCEPT !.files = files, !.output = output,
                            !.i = IF files = <<>> THEN 0 ELSE 1,
                            !.pc = IF files = <<>> THEN "done" ELSE "read"]
    /\ UNCHANGED <<regs, engines, last, again, practice, reent, found, agg, app, walk>>

\* variant: a failure to read leaves processFile and ends the command
ReadFileOrExit ==
    /\ cli.pc = "read"
    /\ cli' = IF CurrentFile = "unreadable"
              THEN [cli EXCEPT !.pc = "done"]
              ELSE [cli EXCEPT !.pc = "parse"]
    /\ UNCHANGED <<regs, engines, last, again, practice, reent, found, agg, app, walk>>

\* readSolidityFile; a failure is caught by processFile's catch
ReadFile ==
    /\ cli.pc = "read"
    /\ cli' = IF CurrentFile = "unreadable"
              THEN [cli EXCEPT !.run.caught = TRUE, !.pc = "next"]
              ELSE [cli EXCEPT !.pc = "parse"]
    /\ UNCHANGED <<regs, engines, last, again, practice, reent, found, agg, app, walk>>

\* parseSolidity; anything but a ParserError is rethrown and caught
Parse ==
    /\ cli.pc = "parse"
    /\ cli' = IF CurrentFile = "parserCrash"
              THEN [cli EXCEPT !.run.caught = TRUE, !.pc = "next"]
              ELSE [cli EXCEPT !.run.errors = parseErrors(CurrentFile),
                               !.pc = "check"]
    /\ UNCHANGED <<regs, engines, last, again, practice, reent, found, agg, app, walk>>

\* variant: the diagnostics are printed and the analysis runs all the same
CheckErrorsAndGoOn ==
    /\ cli.pc = "check"
    /\ cli' = [cli EXCEPT !.run.printed = @ \o cli.run.errors, !.pc = "analyze"]
    /\ UNCHANGED <<regs, engines, last, again, practice, reent, found, agg, app, walk>>

\* if (parsedContract.errors.length > 0): every error is printed, return
CheckErrors ==
    /\ cli.pc = "check"
    /\ cli' = IF Len(cli.run.errors) > 0
              THEN [cli EXCEPT !.run.printed = @ \o cli.run.errors, !.pc = "next"]
              ELSE [cli EXCEPT !.pc = "analyze"]
    /\ UNCHANGED <<regs, engines, last, again, practice, reent, found, agg, app, walk>>

\* await analyze(ast, analysisOption, filepath, content)
CallAnalyze ==
    /\ cli.pc = "analyze"
    /\ cli' = IF CurrentFile = "analyzeCrash"
              THEN [cli EXCEPT !.run.analyzed = TRUE, !.run.caught = TRUE,
                               !.pc = "next"]
              ELSE [cli EXCEPT !.run.analyzed = TRUE, !.pc = "report"]
    /\ UNCHANGED <<regs, engines, last, again, practice, reent, found, agg, app, walk>>

\* generateConsoleReport or generateHtmlReport; a failure is caught
GenerateReport ==
    /\ cli.pc = "report"
    /\ cli' = IF CurrentFile = "reportCrash"
              THEN [cli EXCEPT !.run.caught = TRUE, !.pc = "next"]
              ELSE [cli EXCEPT !.run.reported = cli.output, !.pc = "next"]
    /\ UNCHANGED <<regs, engines, last, again, practice, reent, found, agg, app, walk>>

\* processFile returns; the loop goes to the next file
NextFile ==
    /\ cli.pc = "next"
    /\ cli' = [cli EXCEPT !.runs = Append(@, cli.run), !.run = NoRun,
                          !.i = @ + 1,
                          !.pc = IF cli.i = Len(cli.files) THEN "done" ELSE "read"]
    /\ UNCHANGED <<regs, engines, last, again, practice, reent, found, agg, app, walk>>

NextCli ==
    \/ /\ cli.pc = "idle"
       /\ \E files \in SeqsUpTo(FileKinds, MaxFiles), output \in OutputFormats :
              RunCommand(files, output)
    \/ ReadFile
    \/ Parse
    \/ CheckErrors
    \/ CallAnalyze
    \/ GenerateReport
    \/ NextFile

SpecCli == Init /\ [][NextCli]_vars

\* the command's action is one chain of awaited steps, each of which returns
\* or throws; no other task competes with it
SpecCliFair == SpecCli /\ WF_vars(NextCli)

(***************************************************************************)
(* A built-in rule's detect applied to one node: nodes of every type the   *)
(* rules test, with and without their optional fields, and functions       *)
(* holding an external call and a state write                              *)
(***************************************************************************)
BuiltInRules == Range(securityRules) \cup {explicitUint256Rule}

OptionalLocs == {NoLoc, <<7, 4>>}

\* a node of the given type; loc and range are present or absent
Variant(t, l, r) == [ASTNode(t, l, <<>>) EXCEPT !.range = r]

FunctionVariants ==
    {[Variant("FunctionDefinition", l, r) EXCEPT !.name = nm, !.visibility = v,
                                                 !.guarded = g] :
        l \in OptionalLocs, r \in BOOLEAN,
        nm \in {NullName, "withdraw", "Mint", "transferOwnership", "get"},
        v \in {"", "private"}, g \in BOOLEAN}

NodeVariants ==
    FunctionVariants
    \cup {[Variant("FunctionCall", l, r) EXCEPT !.member = m] :
            l \in OptionalLocs, r \in BOOLEAN,
            m \in {"", "call", "send", "selfdestruct", "delegatecall"}}
    \cup {[Variant("BinaryOperation", l, r) EXCEPT !.operator = op] :
            l \in OptionalLocs, r \in BOOLEAN, op \in {"", "+", "="}}
    \cup {[Variant("ElementaryTypeName", l, r) EXCEPT !.name = nm] :
            l \in OptionalLocs, r \in BOOLEAN, nm \in {"uint256", "uint"}}
    \cup {Variant(t, l, r) :
            t \in {"InlineAssemblyStatement", "ContractDefinition", "MemberAccess"},
            l \in OptionalLocs, r \in BOOLEAN}

\* a function with an external call and a state write in its body
FunctionTrees ==
    {<< [f EXCEPT !.children = <<2, 3>>],
        [ASTNode("FunctionCall", cl, <<>>) EXCEPT !.member = "call"],
        [ASTNode("BinaryOperation", wl, <<>>) EXCEPT !.operator = "="] >> :
        f \in {g \in FunctionVariants : g.name = "get" /\ g.visibility = "" /\ ~g.guarded},
        cl \in {NoLoc, <<8, 8>>}, wl \in {NoLoc, <<9, 8>>, <<8, 2>>}}

RuleTrees == {<<v>> : v \in NodeVariants} \cup FunctionTrees

\* rule.detect(node, sourceCode, filePath) on the root of tree
ApplyDetect(rule, tree) ==
    /\ ~app.done
    /\ LET d == detect(rule, tree, 1)
       IN app' = [done |-> TRUE, rule |-> rule, tree |-> tree,
                  threw |-> d.threw, issues |-> d.issues]
    /\ UNCHANGED <<regs, engines, last, again, practice, reent, found, agg, cli, walk>>

NextRules ==
    /\ ~app.done
    /\ \E rule \in BuiltInRules, tree \in RuleTrees : ApplyDetect(rule, tree)

SpecRules == Init /\ [][NextRules]_vars

(***************************************************************************)
(* findNodes and nodeContains call by call: the stack of traverse calls,   *)
(* on trees whose nodes carry a parent property or none.  A call that      *)
(* would make the stack deeper than MaxStack raises RangeError.            *)
(***************************************************************************)
WalkFunctions == {"findNodes", "nodeContains"}
WalkTypes == {"*", "FunctionDefinition", "Block", "Missing"}

\* the node whose property n is, 0 for the root
ParentOf(tree, n) ==
    IF \E m \in NodesOf(tree) : Includes(tree[m].children, n)
    THEN CHOOSE m \in NodesOf(tree) : Includes(tree[m].children, n)
    ELSE 0

\* for (const key in node): the object-valued properties in key order, the
\* parent property, where the nodes carry one, behind the others
ObjectKeys(tree, parents, n) ==
    tree[n].children
      \o (IF parents /\ ParentOf(tree, n) # 0 THEN <<ParentOf(tree, n)>> ELSE <<>>)

\* traverse(node) called in state w: the tests at its head, then its frame
EnterTraverse(w, n) ==
    IF n = 0 THEN w
    ELSE IF w.fn = "nodeContains" /\ w.found THEN w
    ELSE IF w.fn = "nodeContains" /\ w.tree[n].type = w.type
         THEN [w EXCEPT !.found = TRUE]
    ELSE IF Len(w.stack) >= MaxStack
         THEN [w EXCEPT !.threw = TRUE, !.stack = <<>>, !.pc = "done"]
    ELSE [w EXCEPT !.nodes = IF w.fn = "findNodes" /\ w.tree[n].type = w.type
                               THEN Append(@, n) ELSE @,
                   !.stack = Append(@, [node |-> n, key |-> 1])]

\* findNodes(node, type) or nodeContains(node, type): traverse(node)
StartWalk(fn, tree, parents, start, type) ==
    /\ walk.pc = "idle"
    /\ walk' = EnterTraverse([pc |-> "run", fn |-> fn, tree |-> tree,
                              parents |-> parents, start |-> start, type |-> type,
                              stack |-> <<>>, nodes |-> <<>>, found |-> FALSE,
                              threw |-> FALSE], start)
    /\ UNCHANGED <<regs, engines, last, again, practice, reent, found, agg, cli, app>>

\* the loop over the keys of the node on top: traverse of the next property
NextKey ==
    /\ walk.pc = "run"
    /\ walk.stack # <<>>
    /\ LET top == walk.stack[Len(walk.stack)]
           keys == ObjectKeys(walk.tree, walk.parents, top.node)
       IN /\ top.key <= Len(keys)
          /\ walk' = EnterTraverse(
                        [walk EXCEPT !.stack[Len(walk.stack)].key = @ + 1],
                        keys[top.key])
    /\ UNCHANGED <<regs, engines, last, again, practice, reent, found, agg, cli, app>>

\* the loop over the keys is through: traverse returns to its caller
ReturnFromTraverse ==
    /\ walk.pc = "run"
    /\ walk.stack # <<>>
    /\ LET top == walk.stack[Len(walk.stack)]
       IN top.key > Len(ObjectKeys(walk.tree, walk.parents, top.node))
    /\ walk' = [walk EXCEPT !.stack = SubSeq(@, 1, Len(@) - 1)]
    /\ UNCHANGED <<regs, engines, last, again, practice, reent, found, agg, cli, app>>

\* return nodes / return found
ReturnFromWalk ==
    /\ walk.pc = "run"
    /\ walk.stack = <<>>
    /\ walk' = [walk EXCEPT !.pc = "done"]
    /\ UNCHANGED <<regs, engines, last, again, practice, reent, found, agg, cli, app>>

NextWalk ==
    \/ /\ walk.pc = "idle"
       /\ \E fn \in WalkFunctions, t \in 1..Len(Trees), parents \in BOOLEAN,
             type \in WalkTypes :
              \E start \in NodesOf(Trees[t]) :
                  StartWalk(fn, Trees[t], parents, start, type)
    \/ NextKey
    \/ ReturnFromTraverse
    \/ ReturnFromWalk

SpecWalk == Init /\ [][NextWalk]_vars

(***************************************************************************)
(* Properties                                                              *)
(***************************************************************************)
\* the positions of registry reg that the include and exclude lists keep
KeptPositions(reg, options) ==
    {i \in 1..Len(reg) :
        /\ options.includeRules = <<>> \/ reg[i].id \in Range(options.includeRules)
        /\ options.excludeRules = <<>> \/ reg[i].id \notin Range(options.excludeRules)}

\* act lists exactly the kept positions of reg, in registry order
ActiveAsSpecified(reg, options, act) ==
    LET K == KeptPositions(reg, options)
    IN /\ Len(act) = Cardinality(K)
       /\ \A p \in 1..Len(act) :
            \E i \in K : /\ Cardinality({j \in K : j <= i}) = p
                         /\ act[p] = reg[i]

\* C1: the active rule set of RuleEngine.analyze and of
\* analyzeBestPracticesDetailed is the registry in registry order, restricted
\* to the ids of a non-empty include list, then without the ids of a
\* non-empty exclude list
C1_ActiveRuleSet ==
    /\ last.eng # 0 => ActiveAsSpecified(last.rules, last.options, last.active)
    /\ practice.done =>
          ActiveAsSpecified(PRACTICE_RULES, practice.options, practice.selected)

\* an engine call where both lists are given and the exclude list removes a
\* rule the include list kept
C1_Witness ==
    /\ last.eng # 0
    /\ last.options.includeRules = <<"CUS-002", "CUS-001">>
    /\ last.options.excludeRules = <<"CUS-001">>
    /\ last.active = <<wildcardRule>>
    /\ everyNodeRule \in Range(last.rules)

\* C2: with includeRules = [X] and excludeRules = [X] analyze returns the
\* empty list and raises no error, whatever the registry and the tree
C2_IncludeThenExcludeEmpty ==
    (/\ last.eng # 0
     /\ Len(last.options.includeRules) = 1
     /\ last.options.excludeRules = last.options.includeRules)
    => (~last.threw /\ last.issues = <<>> /\ last.active = <<>>)

\* X names a rule of the registry that reports findings on this tree when
\* no list is given
C2_Witness ==
    /\ last.eng # 0
    /\ last.options.includeRules = <<"CUS-001">>
    /\ last.options.excludeRules = <<"CUS-001">>
    /\ everyNodeRule \in Range(last.rules)
    /\ ~last.threw
    /\ analyze(last.rules, Trees[last.tree],
               Options(<<"CUS-001">>, <<>>, last.options.minSeverity)).issues # <<>>

\* the path of node identities from the root down to n
RECURSIVE PathTo(_, _)
PathTo(tree, n) ==
    IF n = 1 THEN <<1>>
    ELSE LET p == CHOOSE q \in NodesOf(tree) : n \in Range(tree[q].children)
         IN Append(PathTo(tree, p), n)

ChildIndex(tree, p, c) == CHOOSE i \in 1..Len(tree[p].children) : tree[p].children[i] = c

\* u comes before v in pre-order: u is an ancestor of v, or below their
\* lowest common ancestor u lies under the earlier child
Before(tree, u, v) ==
    LET pu == PathTo(tree, u)
        pv == PathTo(tree, v)
    IN /\ u # v
       /\ \/ Len(pu) < Len(pv) /\ SubSeq(pv, 1, Len(pu)) = pu
          \/ \E k \in 1..(IF Len(pu) < Len(pv) THEN Len(pu) ELSE Len(pv)) - 1 :
                /\ SubSeq(pu, 1, k) = SubSeq(pv, 1, k)
                /\ pu[k + 1] # pv[k + 1]
                /\ ChildIndex(tree, pu[k], pu[k + 1]) < ChildIndex(tree, pv[k], pv[k + 1])

\* what the detect calls of the recorded analyze call returned, in call order
ReturnedByDetect == Flatten([k \in 1..Len(last.calls) |-> last.calls[k].issues])

\* C3: for each active rule analyze invokes detect exactly once for every
\* node of the tree, so a finding a rule produces for a node is in the result
C3_DetectOncePerNode ==
    (last.eng # 0 /\ ~last.threw) =>
       \A ri \in 1..Len(last.active), n \in NodesOf(Trees[last.tree]) :
          /\ Cardinality({k \in 1..Len(last.calls) :
                            last.calls[k].ri = ri /\ last.calls[k].node = n}) = 1
          /\ (last.options.minSeverity = Unset /\ ~detect(last.active[ri], Trees[last.tree], n).threw)
                => \A f \in Range(detect(last.active[ri], Trees[last.tree], n).issues) :
                      f \in Range(last.issues)

\* C4: without minSeverity the returned list is the concatenation of what the
\* detect calls returned, rules in registry order and, within a rule, nodes
\* in pre-order; nothing is removed, deduplicated or reordered
C4_ConcatenationInOrder ==
    (last.eng # 0 /\ ~last.threw /\ last.options.minSeverity = Unset) =>
       /\ last.issues = ReturnedByDetect
       /\ IsSubSeq(last.active, last.rules)
       /\ \A k \in 1..Len(last.calls) :
            /\ last.calls[k].rule = last.active[last.calls[k].ri]
            /\ last.calls[k].issues =
                  detect(last.calls[k].rule, Trees[last.tree], last.calls[k].node).issues
       /\ \A k, l \in 1..Len(last.calls) :
            k < l => \/ last.calls[k].ri < last.calls[l].ri
                     \/ /\ last.calls[k].ri = last.calls[l].ri
                        /\ Before(Trees[last.tree], last.calls[k].node, last.calls[l].node)

\* two rules report findings on the same lines of a tree with several visited
\* nodes, and every one of them is returned
C4_Witness ==
    /\ last.eng # 0 /\ ~last.threw
    /\ last.options.minSeverity = Unset
    /\ last.tree = 4
    /\ everyNodeRule \in Range(last.active)
    /\ wildcardRule \in Range(last.active)
    /\ Len(last.issues) = 9
    /\ \E i, j \in 1..Len(last.issues) :
          last.issues[i].id # last.issues[j].id /\ last.issues[i].line = last.issues[j].line

\* C5: with minSeverity set analyze returns exactly the findings at or above
\* the threshold in the order critical > high > medium > low > info, in their
\* original relative order
C5_SeverityThreshold ==
    (last.eng # 0 /\ ~last.threw /\ last.options.minSeverity # Unset) =>
       LET AtOrAbove(f) == SeverityRank(f.severity) >= SeverityRank(last.options.minSeverity)
       IN last.issues = SelectSeq(ReturnedByDetect, AtOrAbove)

\* the findings of the recorded call under another threshold
IssuesUnder(sev) ==
    analyze(last.rules, Trees[last.tree], [last.options EXCEPT !.minSeverity = sev]).issues

PracticeIssuesUnder(sev) ==
    analyzeBestPracticesDetailed(practice.hits,
                                 [practice.options EXCEPT !.minSeverity = sev]).issues

\* C6: the findings under a higher threshold are a sub-list of those under a
\* lower one, and all are sub-lists of the result without threshold
C6_ThresholdMonotone ==
    /\ (last.eng # 0 /\ ~last.threw) =>
          /\ IsSubSeq(last.issues, IssuesUnder(Unset))
          /\ \A s \in EngineMinSeverities \ {Unset} :
                IF last.options.minSeverity = Unset
                THEN IsSubSeq(IssuesUnder(s), last.issues)
                ELSE /\ SeverityRank(s) > SeverityRank(last.options.minSeverity)
                          => IsSubSeq(IssuesUnder(s), last.issues)
                     /\ SeverityRank(s) < SeverityRank(last.options.minSeverity)
                          => IsSubSeq(last.issues, IssuesUnder(s))
    /\ practice.done =>
          /\ IsSubSeq(practice.issues, PracticeIssuesUnder(Unset))
          /\ \A s \in Severity :
                IF practice.options.minSeverity = Unset
                THEN IsSubSeq(PracticeIssuesUnder(s), practice.issues)
                ELSE /\ SeverityRank(s) > SeverityRank(practice.options.minSeverity)
                          => IsSubSeq(PracticeIssuesUnder(s), practice.issues)
                     /\ SeverityRank(s) < SeverityRank(practice.options.minSeverity)
                          => IsSubSeq(practice.issues, PracticeIssuesUnder(s))

\* a call under threshold medium that keeps some findings and drops others,
\* while the threshold high keeps fewer than the threshold low
C6_Witness ==
    /\ last.eng # 0 /\ ~last.threw
    /\ last.options.minSeverity = "medium"
    /\ last.issues # <<>>
    /\ Len(last.issues) < Len(IssuesUnder("low"))
    /\ Len(IssuesUnder("low")) < Len(IssuesUnder(Unset))

\* C7: a detect call that fails is caught at the call site, counts as no
\* finding for that rule and node, and the rule goes on to the remaining
\* nodes and the remaining rules to all nodes; analyze returns a list
C7_DetectFailureContained ==
    last.eng # 0 =>
       /\ ~last.threw
       /\ \A ri \in 1..Len(last.active),
             n \in Range(findNodes(Trees[last.tree], 1, EngineNodeType)) :
             \E k \in 1..Len(last.calls) :
                last.calls[k].ri = ri /\ last.calls[k].node = n

NotBehind(p, q) == p[1] < q[1] \/ (p[1] = q[1] /\ p[2] <= q[2])

\* the (external call, state write) pairs of the recorded input that carry
\* locations, with the call at or before the write
HazardPairs ==
    {<<c, w>> \in Range(reent.externalCalls) \X Range(reent.stateChanges) :
        /\ reent.locOf[c] # NoLoc
        /\ reent.locOf[w] # NoLoc
        /\ NotBehind(reent.locOf[c], reent.locOf[w])}

\* C9: checkReentrancyPattern reports a hazard exactly when, among the nodes
\* with location metadata, some external call comes before a state write in
\* (line, column) order, a call at the position of a write counting as before
C9_HazardIffCallBeforeWrite ==
    reent.done => (reent.issues # <<>> <=> HazardPairs # {})

\* a hazard decided by the column within one line, with an unlocated node
\* among the inputs
C9_Witness ==
    /\ reent.done
    /\ reent.issues # <<>>
    /\ \E n \in Range(reent.externalCalls \o reent.stateChanges) : reent.locOf[n] = NoLoc
    /\ \E c \in Range(reent.externalCalls), w \in Range(reent.stateChanges) :
          /\ reent.locOf[c] # NoLoc /\ reent.locOf[w] # NoLoc
          /\ reent.locOf[c][1] = reent.locOf[w][1]
          /\ reent.locOf[c][2] < reent.locOf[w][2]
    /\ Cardinality(HazardPairs) = 1

\* C10: for one function the rule emits at most one finding however many
\* (call, later write) pairs there are; the finding has id SEC-001, severity
\* high and the start line of the function
C10_OneFindingPerFunction ==
    reent.done =>
       /\ Len(reent.issues) <= 1
       /\ reent.issues # <<>> =>
             /\ reent.issues[1].id = "SEC-001"
             /\ reent.issues[1].severity = "high"
             /\ reent.functionNode.loc # NoLoc =>
                   reent.issues[1].line = reent.functionNode.loc[1]

\* several (call, later write) pairs in a function with a location whose
\* start line is neither a call's nor a write's line
C10_Witness ==
    /\ reent.done
    /\ Cardinality(HazardPairs) >= 3
    /\ reent.functionNode.loc # NoLoc
    /\ \A n \in NodeIds :
          reent.locOf[n] # NoLoc /\ reent.locOf[n][1] # reent.functionNode.loc[1]
    /\ Len(reent.issues) = 1

\* C11: reentrancyRule.detect returns [] without calling
\* checkReentrancyPattern when the node is not a FunctionDefinition, when no
\* external call was found, or when no state change was found
C11_VacuousWithoutScan ==
    (/\ reent.done
     /\ \/ reent.type # "FunctionDefinition"
        \/ reent.externalCalls = <<>>
        \/ reent.stateChanges = <<>>)
    => (reent.issues = <<>> /\ ~reent.scanned)

\* a non-function node whose subtree holds a located call ahead of a located
\* write: the pattern a function would be reported for
C11_Witness ==
    /\ reent.done
    /\ reent.type # "FunctionDefinition"
    /\ HazardPairs # {}
    /\ ~reent.scanned
    /\ reent.issues = <<>>

\* position p is strictly ahead of position q in (line, column) order
StrictlyBefore(p, q) == p[1] < q[1] \/ (p[1] = q[1] /\ p[2] < q[2])

\* every located state write is strictly ahead of every located external call
WritesBeforeCalls ==
    \A c \in Range(reent.externalCalls), w \in Range(reent.stateChanges) :
        (reent.locOf[c] # NoLoc /\ reent.locOf[w] # NoLoc)
            => StrictlyBefore(reent.locOf[w], reent.locOf[c])

\* C12: when every state write lies strictly before every external call in
\* (line, column) order the reentrancy scan returns [], whatever the number
\* of writes and calls; so do calls with no state write at all
C12_EffectsBeforeInteractionsClean ==
    (reent.done /\ WritesBeforeCalls) => reent.issues = <<>>

\* two located writes ahead of two located occurrences of calls, one write
\* on the line of a call and ahead of it by its column only
C12_Witness ==
    /\ reent.done
    /\ WritesBeforeCalls
    /\ Len(reent.stateChanges) = 2
    /\ reent.stateChanges[1] # reent.stateChanges[2]
    /\ Len(reent.externalCalls) = 2
    /\ \A n \in Range(reent.externalCalls \o reent.stateChanges) : reent.locOf[n] # NoLoc
    /\ \E c \in Range(reent.externalCalls), w \in Range(reent.stateChanges) :
          reent.locOf[c][1] = reent.locOf[w][1]
    /\ reent.issues = <<>>

\* the findings of the recorded analyze call that carry the given rule id
FindingsOf(id) ==
    LET HasId(f) == f.id = id IN SelectSeq(last.issues, HasId)

\* C13: the engine run with default options on the tree of the single
\* function withdraw (low-level call on line 8, state write on line 9)
\* returns exactly one reentrancy finding, of severity high, on the start
\* line of the function
C13_WithdrawEndToEnd ==
    (/\ last.eng # 0
     /\ Trees[last.tree] = TreeWithdraw
     /\ last.options = Options(<<>>, <<>>, Unset)
     /\ reentrancyRule \in Range(last.rules))
    => /\ ~last.threw
       /\ Len(FindingsOf("SEC-001")) = 1
       /\ FindingsOf("SEC-001")[1].severity = "high"
       /\ FindingsOf("SEC-001")[1].line = TreeWithdraw[3].loc[1]

\* C14: the traversal requested with the match-everything type ("*" by the
\* rule engine, ".*" by the gas optimizer) yields every node of the tree,
\* each exactly once
C14_MatchEverythingVisitsAll ==
    (found.done /\ found.type \in {"*", ".*"}) =>
       /\ Len(found.nodes) = Len(found.tree)
       /\ \A n \in NodesOf(found.tree) :
             Cardinality({k \in 1..Len(found.nodes) : found.nodes[k] = n}) = 1

\* C15: findNodes returns all and only the nodes whose type tag is the
\* requested one, the root included, each once and in pre-order (a node ahead
\* of its subtree, the subtree of an earlier child ahead of that of a later
\* one); null children are skipped and the tree is left as it was
C15_FindNodesByTypePreOrder ==
    found.done =>
       /\ Range(found.nodes) = {n \in NodesOf(found.tree) : found.tree[n].type = found.type}
       /\ Len(found.nodes) = Cardinality(Range(found.nodes))
       /\ \A i, j \in 1..Len(found.nodes) :
             i < j => Before(found.tree, found.nodes[i], found.nodes[j])
       /\ found.after = found.tree

\* a tree with null properties where the matches are the root, a later-numbered
\* node under its first child slot and a grandchild behind a null slot, while
\* one node in between carries another tag
C15_Witness ==
    /\ found.done
    /\ Len(found.tree) = 4
    /\ found.tree[1].children = <<3, 0, 2>>
    /\ found.tree[2].type # found.type
    /\ found.nodes = <<1, 3, 4>>

\* C16: the aggregate result lists the security, gas and practice findings
\* in that order and its totalIssues is the sum of the three lengths; the
\* combined analyzer's allIssues has totalIssueCount elements, which is
\* securityIssueCount + gasIssueCount
C16_AggregationAdditive ==
    agg.done =>
       /\ agg.result.issues = agg.result.securityIssues \o agg.result.gasIssues
                                \o agg.result.practiceIssues
       /\ agg.result.stats.totalIssues
             = Len(agg.result.securityIssues) + Len(agg.result.gasIssues)
               + Len(agg.result.practiceIssues)
       /\ Len(agg.combined.allIssues) = agg.combined.stats.totalIssueCount
       /\ agg.combined.stats.totalIssueCount
             = agg.combined.stats.securityIssueCount + agg.combined.stats.gasIssueCount

\* all three analyses ran and each returned findings
C16_Witness ==
    /\ agg.done
    /\ Len(agg.result.securityIssues) = 2
    /\ Len(agg.result.gasIssues) = 1
    /\ Len(agg.result.practiceIssues) = 2
    /\ agg.result.stats.totalIssues = 5
    /\ agg.combined.stats.totalIssueCount = 3

\* the number a statistics table gives for a severity; a severity the table
\* has no entry for is read as zero
CountRead(table, sv) == IF sv \in DOMAIN table.counts THEN table.counts[sv] ELSE 0

\* the statistics block holds, for each of the five severities, the number
\* of findings of that severity (no entry is NaN), and the five numbers sum
\* to totalIssues
StatsCountEachSeverity(stats, issues) ==
    /\ stats.issuesBySeverity.nan = {}
    /\ \A sv \in Severity :
          CountRead(stats.issuesBySeverity, sv) = countBySeverity(issues, sv)
    /\ CountRead(stats.issuesBySeverity, "critical")
         + CountRead(stats.issuesBySeverity, "high")
         + CountRead(stats.issuesBySeverity, "medium")
         + CountRead(stats.issuesBySeverity, "low")
         + CountRead(stats.issuesBySeverity, "info") = stats.totalIssues
    /\ stats.totalIssues = Len(issues)

\* C17: for every finding list over the severities critical, high, medium,
\* low and info, each statistics block (of the aggregate result, of the
\* security analyzer, of the gas optimizer) counts the findings of each
\* severity, and the counts sum to totalIssues
C17_StatsBySeverity ==
    agg.done =>
       /\ StatsCountEachSeverity(agg.result.stats, agg.result.issues)
       /\ StatsCountEachSeverity(agg.securityStats, agg.securityResults)
       /\ StatsCountEachSeverity(agg.gasStats, agg.gasResults)
       /\ StatsCountEachSeverity(agg.fiveKeyStats,
                                 agg.securityResults \o agg.gasResults
                                    \o agg.practiceResults)

\* what processFile did for the i-th file so far
RunOf(i) == IF i <= Len(cli.runs) THEN cli.runs[i] ELSE cli.run

\* C18: for a file whose parse reported at least one error, analyze is never
\* called and no report is generated; once processFile has returned, each
\* diagnostic was printed exactly once
C18_ParseErrorsSkipAnalysis ==
    \A i \in 1..Len(cli.files) :
        (i <= cli.i /\ RunOf(i).errors # <<>>) =>
           /\ ~RunOf(i).analyzed
           /\ RunOf(i).reported = ""
           /\ cli.pc \notin {"analyze", "report"} \/ i # cli.i
           /\ i <= Len(cli.runs) => RunOf(i).printed = RunOf(i).errors

\* the command has finished two files: the first had two parse errors and
\* was not analysed, the second parsed cleanly and was analysed and reported
C18_Witness ==
    /\ cli.pc = "done"
    /\ Len(cli.runs) = 2
    /\ cli.runs[1].errors = <<"error1", "error2">>
    /\ cli.runs[1].printed = <<"error1", "error2">>
    /\ ~cli.runs[1].analyzed
    /\ cli.runs[2].analyzed
    /\ cli.runs[2].reported = "html"

\* the ids of list that name a rule of the registry reg
KnownIds(reg, list) ==
    LET Known(id) == \E i \in 1..Len(reg) : reg[i].id = id IN SelectSeq(list, Known)

\* C19: an id in includeRules or excludeRules that names no rule of the
\* registry matches nothing and raises no error: the active set is the one
\* obtained without the unknown ids in the exclude list, and without those in
\* the include list when it names a known rule too; an include list of
\* unknown ids only gives an empty active set and no findings
C19_UnknownIdsMatchNothing ==
    last.eng # 0 =>
       LET o == last.options
           knownInc == KnownIds(last.rules, o.includeRules)
           knownExc == KnownIds(last.rules, o.excludeRules)
       IN /\ last.active
               = filterRulesByOptions(last.rules, [o EXCEPT !.excludeRules = knownExc])
          /\ knownInc # <<>> =>
                last.active
                  = filterRulesByOptions(last.rules, [o EXCEPT !.includeRules = knownInc])
          /\ (o.includeRules # <<>> /\ knownInc = <<>>) =>
                (last.active = <<>> /\ last.issues = <<>> /\ ~last.threw)
          /\ last.threw => \E k \in 1..Len(last.calls) : last.calls[k].threw

\* an include list holding one unknown id, on a registry and a tree that
\* give findings when no list is given
C19_Witness ==
    /\ last.eng # 0
    /\ last.options.includeRules = <<"NOPE-1">>
    /\ last.options.excludeRules = <<>>
    /\ last.rules # <<>>
    /\ analyze(last.rules, Trees[last.tree],
               Options(<<>>, <<>>, last.options.minSeverity)).issues # <<>>
    /\ last.active = <<>>
    /\ last.issues = <<>>

\* the rules engine e applies, in registries r
RulesOf(r, e) == r[engines[e]]

\* C20: engine instances share no mutable state: a step that changes the
\* rules of one engine (addRule on it) leaves the rules applied by every
\* other engine as they were
C20_EnginesIndependent ==
    [][\A e1, e2 \in 1..Len(engines) :
          (e1 # e2 /\ RulesOf(regs', e1) # RulesOf(regs, e1))
             => RulesOf(regs', e2) = RulesOf(regs, e2)]_vars

\* C21: in the registry an engine uses no two rules have the same id,
\* however many addRule calls were made
C21_UniqueRuleIds ==
    \A e \in 1..Len(engines) :
       \A i, j \in 1..Len(RulesOf(regs, e)) :
          RulesOf(regs, e)[i].id = RulesOf(regs, e)[j].id => i = j

\* C22: detect of a built-in rule never raises on a node with a valid type
\* tag, whichever of its optional fields are absent
C22_DetectTotal ==
    app.done => ~app.threw

\* C23: every finding of a security rule has a line that is null (location
\* unknown) or at least 1, also when the node or the enclosing function has
\* no location metadata
C23_LineNullOrPositive ==
    (app.done /\ ~app.threw /\ app.rule \in Range(securityRules)) =>
        \A k \in 1..Len(app.issues) :
            app.issues[k].line = NullLine \/ app.issues[k].line >= 1

\* C29: every finding of a built-in rule carries the id of the rule that
\* produced it
C29_FindingCarriesRuleId ==
    (app.done /\ ~app.threw) =>
        \A k \in 1..Len(app.issues) : app.issues[k].id = app.rule.id

\* what analyze returns for the analyses of the last call under other flags
ResultUnder(flags) ==
    indexAnalyze(flags, agg.securityResults, agg.gasResults, agg.practiceResults)

\* C24: what a category contributes depends on its own flag only, and a
\* category that is switched off contributes the empty list
C24_CategoriesIndependent ==
    agg.done =>
        /\ \A f \in RunFlags :
              /\ f.security = agg.flags.security =>
                    ResultUnder(f).securityIssues = agg.result.securityIssues
              /\ f.gas = agg.flags.gas =>
                    ResultUnder(f).gasIssues = agg.result.gasIssues
              /\ f.practices = agg.flags.practices =>
                    ResultUnder(f).practiceIssues = agg.result.practiceIssues
        /\ ~agg.flags.security => agg.result.securityIssues = <<>>
        /\ ~agg.flags.gas => agg.result.gasIssues = <<>>
        /\ ~agg.flags.practices => agg.result.practiceIssues = <<>>

\* the located calls and writes of the last call, in collection order
MergedLocated == filterLocated(reent.externalCalls \o reent.stateChanges, reent.locOf)

\* the nodes of a sequence that sit at position l, in the order of the sequence
AtPosition(nodes, l) ==
    LET Here(n) == reent.locOf[n] = l IN SelectSeq(nodes, Here)

\* a call and a write, two nodes, located at the same position
TiedCallAndWrite ==
    \E c \in Range(reent.externalCalls), w \in Range(reent.stateChanges) :
        c # w /\ reent.locOf[c] # NoLoc /\ reent.locOf[c] = reent.locOf[w]

\* every arrangement a sort may produce from the comparator alone: sorted by
\* position, the nodes of equal position in any order
ArrangementsByComparator ==
    {s \in [1..Len(MergedLocated) -> Range(MergedLocated)] :
        /\ \A n \in NodeIds :
              Cardinality({p \in 1..Len(s) : s[p] = n})
                = Cardinality({p \in 1..Len(s) : MergedLocated[p] = n})
        /\ \A p \in 1..(Len(s) - 1) : compareNodes(s[p], s[p + 1], reent.locOf) <= 0}

\* C25 (as amended): nodes of identical (line, column) keep the order of the
\* merged sequence, calls before writes, and a call and a write at the same
\* position count as a call followed by a write
C25_TiesKeepMergedOrder ==
    reent.done =>
        /\ \A l \in Lines \X Columns :
              AtPosition(reent.sorted, l) = AtPosition(MergedLocated, l)
        /\ TiedCallAndWrite => reent.issues # <<>>

C25_Witness ==
    /\ reent.done
    /\ TiedCallAndWrite
    /\ reent.issues # <<>>
    /\ \A c \in Range(reent.externalCalls), w \in Range(reent.stateChanges) :
          reent.locOf[c] # NoLoc /\ reent.locOf[w] # NoLoc
            => reent.locOf[c] = reent.locOf[w]

\* C25 (as stated): besides, the result is the same under every treatment of
\* equal keys by the sort
C25_AnyTieOrderSameResult ==
    reent.done =>
        \A s \in ArrangementsByComparator :
            hazardFound(reent.externalCalls, reent.stateChanges, s)
              <=> reent.issues # <<>>

\* C26: nodes without location metadata are dropped before the sort: the
\* result is the result for the located calls and writes alone, and it is
\* empty when no call or no write is located
C26_UnlocatedDropped ==
    reent.done =>
        LET calls == filterLocated(reent.externalCalls, reent.locOf)
            writes == filterLocated(reent.stateChanges, reent.locOf)
        IN /\ reent.issues
                = checkReentrancyPattern(calls, writes, reent.locOf, reent.functionNode)
           /\ (calls = <<>> \/ writes = <<>>) => reent.issues = <<>>

C26_Witness ==
    /\ reent.done
    /\ reent.externalCalls # <<>>
    /\ filterLocated(reent.externalCalls, reent.locOf) = <<>>
    /\ filterLocated(reent.stateChanges, reent.locOf) # <<>>
    /\ Range(reent.externalCalls) \cap Range(reent.stateChanges) = {}
    /\ reent.issues = <<>>

\* the scan as specified: from an external call at i forward, a state write
\* is met before the next external call or the end of the sequence
SpecifiedScan(externalCalls, stateChanges, sorted) ==
    \E i \in 1..Len(sorted) :
        /\ Includes(externalCalls, sorted[i])
        /\ \E j \in (i + 1)..Len(sorted) :
              /\ Includes(stateChanges, sorted[j])
              /\ \A k \in (i + 1)..(j - 1) : ~Includes(externalCalls, sorted[k])

\* C27: the implemented scan reports a hazard for exactly the inputs for which
\* the specified scan does
C27_ScanEquivalent ==
    reent.done =>
        (reent.issues # <<>>
           <=> SpecifiedScan(reent.externalCalls, reent.stateChanges, reent.sorted))

\* two external calls and then a state write: the first call finds the write
\* only behind the second call
C27_Witness ==
    /\ reent.done
    /\ reent.issues # <<>>
    /\ LET sorted == reent.sorted
       IN /\ Len(sorted) = 3
          /\ Includes(reent.externalCalls, sorted[1])
          /\ Includes(reent.externalCalls, sorted[2])
          /\ ~Includes(reent.stateChanges, sorted[2])
          /\ Includes(reent.stateChanges, sorted[3])

\* a step of the loop over the files: the index moves on by one, only when
\* processFile has returned for the file at the index, whose run is recorded
OneFileAtATime ==
    /\ cli'.i \in {cli.i, cli.i + 1}
    /\ (cli.pc # "idle" /\ cli'.i = cli.i + 1) =>
          /\ cli.pc = "next"
          /\ Len(cli'.runs) = cli.i
    /\ cli.pc # "idle" => cli'.files = cli.files

\* C28: whatever fails for a file, every file of the list is eventually
\* processed, one at a time and in list order
C28_BatchRunsThrough ==
    /\ [][OneFileAtATime]_vars
    /\ \A n \in 0..MaxFiles :
          (cli.pc # "idle" /\ Len(cli.files) = n)
             ~> (cli.pc = "done" /\ Len(cli.runs) = n)

C28_Witness ==
    /\ cli.pc = "done"
    /\ Len(cli.files) = 2
    /\ cli.files[1] \in {"unreadable", "analyzeCrash", "reportCrash", "oneError"}
    /\ Len(cli.runs) = 2
    /\ cli.runs[2].reported # ""

\* C30: findNodes and nodeContains return on every tree, with or without
\* parent properties, and nodeContains returns true exactly when the subtree
\* of the node holds a node of the type
C30_WalksReturn ==
    walk.pc = "done" =>
        /\ ~walk.threw
        /\ walk.fn = "nodeContains" =>
              (walk.found <=> findNodes(walk.tree, walk.start, walk.type) # <<>>)

====
